---- MODULE Spec2Model ----
(***************************************************************************)
(* ffmpeg-nmlz: peak normalisation of audio files through two ffmpeg runs  *)
(* per file, as src/ffmpeg_nmlz/__main__.py does it.  The wav-only entry   *)
(* point src/ffmpeg_nmlz/main.py computes the same gain (its line 79) and  *)
(* has no output directory, preset or extension; it is not modelled apart. *)
(*                                                                         *)
(* Text is modelled as a sequence of one-character strings, so that the    *)
(* regular expressions, the path arithmetic and the number formatting are  *)
(* computed character by character as the code computes them.  An          *)
(* Optional[str] is a sequence of length 0 (None) or 1 (the value).        *)
(* A path is the sequence of its pathlib parts; an absolute path starts    *)
(* with the part "/".                                                      *)
(***************************************************************************)
EXTENDS Integers, Sequences, FiniteSets, TLC

VARIABLES
    args,            \* argparse namespace: output_dir, extension, inputs
    ffmpeg_outputs,  \* environment: the texts the installed ffmpeg may print
    pc,              \* position of the process
    created,         \* directories made by os.makedirs
    output_dir,      \* verify_and_prepare_args: resolved output directory
    format_config,   \* verify_and_prepare_args: encoder, extension, bitrate
    input_patterns,  \* verify_and_prepare_args: the tokens that are not presets
    expanded,        \* verify_and_prepare_args: input_files before deduplication
    input_files,     \* do_normalizing: input_paths
    i,               \* do_normalizing: index of the file being processed (1-based)
    max_volume,      \* do_normalizing: measured volume, in tenths of a dB
    calls,           \* every ffmpeg invocation made so far, in order
    params,          \* the parameter list of the latest ffmpeg invocation
    popen,           \* the latest ffmpeg invocation: its run and what call_ffmpeg made of it
    err,             \* the exception in flight, or the one that ended the run
    stderr,          \* lines printed to standard error
    exit_code,       \* process exit status once exited, -1 before
    task             \* the pair under test of the path specification

vars == <<args, ffmpeg_outputs, pc, created, output_dir, format_config, input_patterns, expanded,
          input_files, i, max_volume, calls, params, popen, err, stderr, exit_code, task>>

(***************************************************************************)
(* Bounds                                                                  *)
(***************************************************************************)
\* longest list of positional tokens on the command line
MaxInputs == 3
\* largest digit used in a volume printed by ffmpeg
MaxDigit == 3
\* longest file name of the path specification
MaxName == 3
\* longest extension of the path specification
MaxExt == 2

(***************************************************************************)
(* Text helpers                                                            *)
(***************************************************************************)
None == <<>>
Some(x) == <<x>>

Range(s) == {s[k] : k \in 1..Len(s)}

SeqsUpTo(S, n) == UNION {[1..k -> S] : k \in 0..n}

Lower == {"a","b","c","d","e","f","g","h","i","j","k","l","m",
          "n","o","p","q","r","s","t","u","v","w","x","y","z"}
Upper == {"A","B","C","D","E","F","G","H","I","J","K","L","M",
          "N","O","P","Q","R","S","T","U","V","W","X","Y","Z"}
Letters == Lower \cup Upper
DigitChars == <<"0","1","2","3","4","5","6","7","8","9">>
Digits == Range(DigitChars)

DigitValue(c) == (CHOOSE k \in 1..10 : DigitChars[k] = c) - 1

(***************************************************************************)
(* Presets                                                                 *)
(***************************************************************************)
FormatConfig(encoder, extension, bitrate) ==
    [encoder |-> encoder, extension |-> extension, bitrate |-> bitrate]

m4a == <<"m","4","a">>
aac == <<"a","a","c">>
mp3 == <<"m","p","3">>
opus == <<"o","p","u","s">>
ogg == <<"o","g","g">>
wav == <<"w","a","v">>
flac == <<"f","l","a","c">>

PRESET_INFO ==
    (m4a :> FormatConfig("libfdk_aac", m4a, Some(<<"1","2","8","K">>))) @@
    (aac :> FormatConfig("libfdk_aac", m4a, Some(<<"1","2","8","K">>))) @@
    (mp3 :> FormatConfig("libmp3lame", mp3, Some(<<"1","9","2","K">>))) @@
    (opus :> FormatConfig("libopus", opus, Some(<<"1","2","8","K">>))) @@
    (ogg :> FormatConfig("libvorbis", ogg, Some(<<"1","6","0","K">>))) @@
    (wav :> FormatConfig("pcm_s16le", wav, None)) @@
    (flac :> FormatConfig("flac", flac, None))

\* The length of the longest prefix of s made of letters: what the greedy
\* group ([a-zA-Z]+) of RE_PRESET takes.
RECURSIVE LettersLen(_)
LettersLen(s) ==
    IF s # <<>> /\ Head(s) \in Letters THEN 1 + LettersLen(Tail(s)) ELSE 0

\* RE_PRESET.fullmatch(s): None, or Some of the two groups; the second group
\* is None when no digit follows the letters.
RE_PRESET_fullmatch(s) ==
    LET n == LettersLen(s)
        rest == SubSeq(s, n + 1, Len(s))
    IN  IF n >= 1 /\ \A k \in 1..Len(rest) : rest[k] \in Digits
        THEN Some([preset_name |-> SubSeq(s, 1, n),
                   parsed_bitrate |-> IF rest = <<>> THEN None ELSE Some(rest)])
        ELSE None

\* One pass of the loop "for input_item in args.inputs", from the state st
\* of its locals.
ParseItem(st, input_item) ==
    LET match_res == RE_PRESET_fullmatch(input_item)
    IN  IF match_res # None /\ match_res[1].preset_name \in DOMAIN PRESET_INFO
        THEN LET p == PRESET_INFO[match_res[1].preset_name]
                 b == match_res[1].parsed_bitrate
             IN  [st EXCEPT !.encoder = p.encoder,
                            !.extension = p.extension,
                            !.bitrate = IF b # None THEN Some(b[1] \o <<"K">>)
                                        ELSE p.bitrate]
        ELSE [st EXCEPT !.input_patterns = Append(@, input_item)]

RECURSIVE ParseItems(_, _)
ParseItems(st, inputs) ==
    IF inputs = <<>> THEN st
    ELSE ParseItems(ParseItem(st, Head(inputs)), Tail(inputs))

\* Lines 130-152 of verify_and_prepare_args: the preset scan and the
\* extension override.
ParseInputs(inputs, extension) ==
    LET st == ParseItems([encoder |-> PRESET_INFO[wav].encoder,
                          extension |-> PRESET_INFO[wav].extension,
                          bitrate |-> PRESET_INFO[wav].bitrate,
                          input_patterns |-> <<>>], inputs)
    IN  [st EXCEPT !.extension = IF extension # None THEN extension[1] ELSE @]

(***************************************************************************)
(* pathlib                                                                 *)
(***************************************************************************)
Root == <<"/">>

\* The characters of s before its first "/".
RECURSIVE FirstPart(_)
FirstPart(s) ==
    IF s = <<>> \/ Head(s) = "/" THEN <<>> ELSE <<Head(s)>> \o FirstPart(Tail(s))

\* The parts of a path string: split at "/", empty and "." parts dropped.
RECURSIVE SplitParts(_)
SplitParts(s) ==
    IF s = <<>> THEN <<>>
    ELSE LET p == FirstPart(s)
             rest == SubSeq(s, Len(p) + 2, Len(s))
         IN  IF p = <<>> \/ p = <<".">> THEN SplitParts(rest)
             ELSE <<p>> \o SplitParts(rest)

\* Path(s)
PurePath(s) ==
    IF s # <<>> /\ Head(s) = "/" THEN <<Root>> \o SplitParts(s) ELSE SplitParts(s)

IsAbsolute(p) == p # <<>> /\ Head(p) = Root

\* dir / s
JoinPath(dir, s) ==
    IF IsAbsolute(PurePath(s)) THEN PurePath(s) ELSE dir \o PurePath(s)

\* str(p)
RECURSIVE JoinParts(_)
JoinParts(parts) ==
    IF parts = <<>> THEN <<>>
    ELSE IF Len(parts) = 1 THEN Head(parts)
    ELSE Head(parts) \o <<"/">> \o JoinParts(Tail(parts))

Str(p) ==
    IF p = <<>> THEN <<".">>
    ELSE IF IsAbsolute(p) THEN <<"/">> \o JoinParts(Tail(p))
    ELSE JoinParts(p)

\* p.name
PathName(p) == IF p = <<>> \/ p = <<Root>> THEN <<>> ELSE p[Len(p)]

\* p.parent
Parent(p) == IF p = <<>> \/ p = <<Root>> THEN p ELSE SubSeq(p, 1, Len(p) - 1)

\* The 1-based index of the last "." of name, 0 when it has none (rfind).
LastDot(name) ==
    LET dots == {k \in 1..Len(name) : name[k] = "."}
    IN  IF dots = {} THEN 0 ELSE CHOOSE k \in dots : \A j \in dots : j <= k

\* PurePath.suffix of a name: from its last dot, unless that dot is the
\* first or the last character.
Suffix(name) ==
    LET k == LastDot(name)
    IN  IF 1 < k /\ k < Len(name) THEN SubSeq(name, k, Len(name)) ELSE <<>>

\* PurePath.stem of a name
Stem(name) ==
    LET k == LastDot(name)
    IN  IF 1 < k /\ k < Len(name) THEN SubSeq(name, 1, k - 1) ELSE name

\* get_out_path without the "-1" of the output name
get_out_path_plain(out_dir, config, in_path) ==
    JoinPath(out_dir, Stem(PathName(in_path)) \o <<".">> \o config.extension)

\* get_out_path: output_dir / f'{in_path.stem}-1.{format_config.extension}'
get_out_path(out_dir, config, in_path) ==
    JoinPath(out_dir, Stem(PathName(in_path)) \o <<"-","1",".">> \o config.extension)

(***************************************************************************)
(* The file system the run sees.  One working directory /w with a          *)
(* subdirectory, a symbolic link to a file, a dangling link and a file     *)
(* that cannot be read.  DirEntries gives the order in which the           *)
(* directory is scanned, which the operating system decides.  Directories  *)
(* are no links, and "**" and "[...]" patterns are not among the tokens.   *)
(***************************************************************************)
dir_w == <<"w">>
dir_s == <<"s">>
dir_o == <<"o">>
x_wav == <<"x",".","w","a","v">>
x1_wav == <<"x","-","1",".","w","a","v">>
x_mp3 == <<"x",".","m","p","3">>
l_wav == <<"l",".","w","a","v">>
u_ogg == <<"u",".","o","g","g">>
d_ogg == <<"d",".","o","g","g">>

Cwd == <<Root, dir_w>>

FsFiles == {Cwd \o <<x_wav>>, Cwd \o <<x1_wav>>, Cwd \o <<x_mp3>>,
            Cwd \o <<u_ogg>>, Cwd \o <<dir_s, x_wav>>}
FsUnreadable == {Cwd \o <<u_ogg>>}
FsDirs == {<<Root>>, Cwd, Cwd \o <<dir_s>>}
\* symbolic links: link path -> target, <<>> for a dangling link
FsLinks == (Cwd \o <<l_wav>> :> Cwd \o <<x_wav>>) @@ (Cwd \o <<d_ogg>> :> <<>>)

DirEntries(dir) ==
    IF dir = <<Root>> THEN <<dir_w>>
    ELSE IF dir = Cwd THEN <<l_wav, x1_wav, x_wav, x_mp3, d_ogg, u_ogg, dir_s>>
    ELSE IF dir = Cwd \o <<dir_s>> THEN <<x_wav>>
    ELSE <<>>

\* os.scandir(dir): the fixed entries, then the directories made by this run
Listing(dir, made) ==
    LET new == {d \in made : Parent(d) = dir}
        RECURSIVE Enum(_)
        Enum(S) == IF S = {} THEN <<>>
                   ELSE LET d == CHOOSE d \in S : TRUE
                        IN  <<PathName(d)>> \o Enum(S \ {d})
    IN  DirEntries(dir) \o Enum(new)

IsDir(p, made) == p \in FsDirs \cup made

\* The path made absolute against the working directory, ".." parts
\* collapsed (no directory of this file system is a link).
RECURSIVE Collapse(_, _)
Collapse(acc, parts) ==
    IF parts = <<>> THEN acc
    ELSE IF Head(parts) = <<".",".">>
         THEN Collapse(IF Len(acc) > 1 THEN SubSeq(acc, 1, Len(acc) - 1) ELSE acc,
                       Tail(parts))
    ELSE Collapse(Append(acc, Head(parts)), Tail(parts))

Absolute(p) == IF IsAbsolute(p) THEN Collapse(<<Root>>, Tail(p)) ELSE Collapse(Cwd, p)

\* Path.resolve(strict=True): [ok, path]
Resolve(p, made) ==
    LET a == Absolute(p)
    IN  IF a \in DOMAIN FsLinks
        THEN [ok |-> FsLinks[a] # <<>>, path |-> FsLinks[a]]
        ELSE [ok |-> a \in FsFiles \cup FsDirs \cup made, path |-> a]

\* open(path, 'rb').read(1) succeeds
CanRead(p) == p \in FsFiles \ FsUnreadable

\* fnmatch of one name against one pattern part: "*" any run, "?" any one
RECURSIVE Match(_, _)
Match(pat, name) ==
    IF pat = <<>> THEN name = <<>>
    ELSE IF Head(pat) = "*"
         THEN Match(Tail(pat), name) \/ (name # <<>> /\ Match(pat, Tail(name)))
    ELSE IF name = <<>> THEN FALSE
    ELSE (Head(pat) = "?" \/ Head(pat) = Head(name)) /\ Match(Tail(pat), Tail(name))

\* '*' in pattern or '?' in pattern
HasWildcard(pattern) == \E k \in 1..Len(pattern) : pattern[k] \in {"*", "?"}

\* The relative paths under rel that match the pattern parts, in scan order.
RECURSIVE GlobFrom(_, _, _)
GlobFrom(rel, parts, made) ==
    IF parts = <<>> THEN <<rel>>
    ELSE LET entries == Listing(Cwd \o rel, made)
             last == Len(parts) = 1
             Hit(name) == Match(Head(parts), name)
                          /\ (last \/ (Resolve(Append(rel, name), made).ok
                                       /\ IsDir(Resolve(Append(rel, name), made).path, made)))
             hits == SelectSeq(entries, Hit)
             RECURSIVE Each(_)
             Each(hs) == IF hs = <<>> THEN <<>>
                         ELSE GlobFrom(Append(rel, Head(hs)), Tail(parts), made)
                              \o Each(Tail(hs))
         IN  Each(hits)

(***************************************************************************)
(* Exceptions                                                              *)
(***************************************************************************)
NoError == [type |-> "none", text |-> "", subject |-> <<>>]

\* FfmpegNmlzError(f'{text}{subject}')
FfmpegNmlzError(text, subject) ==
    [type |-> "FfmpegNmlzError", text |-> text, subject |-> subject]

\* An exception of another class, raised by the library
Exception(type) == [type |-> type, text |-> "", subject |-> <<>>]

(***************************************************************************)
(* verify_and_prepare_args                                                 *)
(***************************************************************************)
\* The proper prefixes of an absolute path, the path itself included,
\* without the root.
Ancestors(p) == {SubSeq(p, 1, k) : k \in 2..Len(p)}

\* Lines 119-127: [err, output_dir, created]
PrepareOutputDir(dir_arg, made) ==
    LET path == PurePath(dir_arg)
        r == Resolve(path, made)
        a == Absolute(path)
        is_dir == r.ok /\ IsDir(r.path, made)
        \* os.makedirs fails when the path, or one of its ancestors, is there
        \* and is no directory
        blocked == \E q \in Ancestors(a) :
                      q \in FsFiles \cup DOMAIN FsLinks
        failed == FfmpegNmlzError("Unable to create output directory: ", dir_arg)
    IN  IF is_dir THEN [err |-> NoError, output_dir |-> r.path, created |-> made]
        ELSE IF blocked THEN [err |-> failed, output_dir |-> <<>>, created |-> made]
        ELSE [err |-> NoError, output_dir |-> a,
              created |-> made \cup (Ancestors(a) \ FsDirs)]

\* [err, path]: the path resolved and opened for reading, or the error
\* naming the path as it stands when the failure happens
verify_and_canonicanize_path(path, made) ==
    LET r == Resolve(path, made)
    IN  IF ~r.ok
        THEN [err |-> FfmpegNmlzError("Failed to open file: ", Str(path)), path |-> <<>>]
        ELSE IF ~CanRead(r.path)
        THEN [err |-> FfmpegNmlzError("Failed to open file: ", Str(r.path)), path |-> <<>>]
        ELSE [err |-> NoError, path |-> r.path]

\* The body of "for input_file in ROOT.glob(pattern)": the matches verified
\* in order, appended to files until one fails.
RECURSIVE VerifyEach(_, _, _)
VerifyEach(paths, files, made) ==
    IF paths = <<>> THEN [err |-> NoError, files |-> files]
    ELSE LET v == verify_and_canonicanize_path(Head(paths), made)
         IN  IF v.err # NoError THEN [err |-> v.err, files |-> files]
             ELSE VerifyEach(Tail(paths), Append(files, v.path), made)

\* One pass of "for pattern in input_patterns": [err, files]
ResolvePattern(pattern, files, made) ==
    IF HasWildcard(pattern)
    THEN IF IsAbsolute(PurePath(pattern))
         THEN [err |-> Exception("NotImplementedError"), files |-> files]
         ELSE LET found == GlobFrom(<<>>, SplitParts(pattern), made)
              IN  IF found = <<>>
                  THEN [err |-> FfmpegNmlzError("No files found for pattern: ", pattern),
                        files |-> files]
                  ELSE VerifyEach(found, files, made)
    ELSE VerifyEach(<<PurePath(pattern)>>, files, made)

RECURSIVE ResolvePatterns(_, _, _)
ResolvePatterns(patterns, files, made) ==
    IF patterns = <<>> THEN [err |-> NoError, files |-> files]
    ELSE LET r == ResolvePattern(Head(patterns), files, made)
         IN  IF r.err # NoError THEN r
             ELSE ResolvePatterns(Tail(patterns), r.files, made)

\* Deduplication that keeps the last occurrence of each element
RECURSIVE Dedup_last(_)
Dedup_last(files) ==
    IF files = <<>> THEN <<>>
    ELSE IF Head(files) \in Range(Tail(files)) THEN Dedup_last(Tail(files))
    ELSE <<Head(files)>> \o Dedup_last(Tail(files))

\* list({k: None for k in input_files}.keys()): the first occurrence of
\* each element, in order
RECURSIVE Dedup(_)
Dedup(files) ==
    IF files = <<>> THEN <<>>
    ELSE LET init == Dedup(SubSeq(files, 1, Len(files) - 1))
             x == files[Len(files)]
         IN  IF x \in Range(init) THEN init ELSE Append(init, x)

(***************************************************************************)
(* ffmpeg                                                                  *)
(***************************************************************************)
\* One run of the external tool, as the environment decides it.
ToolRun(start, decodable, returncode, out) ==
    [start |-> start, decodable |-> decodable, returncode |-> returncode, stdout |-> out]

\* call_ffmpeg without the check of the return code
call_ffmpeg_unchecked(run) ==
    IF run.start = "FileNotFoundError"
    THEN [err |-> FfmpegNmlzError("FFmpeg is not installed. Please install FFmpeg first.", <<>>),
          stdout |-> <<>>]
    ELSE IF run.start # "started"
    THEN [err |-> FfmpegNmlzError("Failed to start FFmpeg. Please check your FFmpeg installation.", <<>>),
          stdout |-> <<>>]
    ELSE IF ~run.decodable
    THEN [err |-> Exception("UnicodeDecodeError"), stdout |-> <<>>]
    ELSE [err |-> NoError, stdout |-> run.stdout]

\* call_ffmpeg with the bare except clause alone: a missing binary is
\* reported as any other failure to start
call_ffmpeg_one_except(run) ==
    IF run.start # "started"
    THEN [err |-> FfmpegNmlzError("Failed to start FFmpeg. Please check your FFmpeg installation.", <<>>),
          stdout |-> <<>>]
    ELSE IF ~run.decodable
    THEN [err |-> Exception("UnicodeDecodeError"), stdout |-> <<>>]
    ELSE IF run.returncode # 0
    THEN [err |-> FfmpegNmlzError("FFmpeg exited abnormally.", <<>>), stdout |-> <<>>]
    ELSE [err |-> NoError, stdout |-> run.stdout]

\* call_ffmpeg: [err, stdout]
call_ffmpeg(run) ==
    IF run.start = "FileNotFoundError"
    THEN [err |-> FfmpegNmlzError("FFmpeg is not installed. Please install FFmpeg first.", <<>>),
          stdout |-> <<>>]
    ELSE IF run.start # "started"
    THEN [err |-> FfmpegNmlzError("Failed to start FFmpeg. Please check your FFmpeg installation.", <<>>),
          stdout |-> <<>>]
    ELSE IF ~run.decodable
    THEN [err |-> Exception("UnicodeDecodeError"), stdout |-> <<>>]
    ELSE IF run.returncode # 0
    THEN [err |-> FfmpegNmlzError("FFmpeg exited abnormally.", <<>>), stdout |-> <<>>]
    ELSE [err |-> NoError, stdout |-> run.stdout]

VolumeClass == Digits \cup {"-", "."}

StartsWith(str, prefix) ==
    Len(str) >= Len(prefix) /\ SubSeq(str, 1, Len(prefix)) = prefix

\* The length of the longest prefix of str inside the class [\-\d.]
RECURSIVE ClassLen(_)
ClassLen(str) ==
    IF str # <<>> /\ Head(str) \in VolumeClass THEN 1 + ClassLen(Tail(str)) ELSE 0

VolumePrefix == <<"m","a","x","_","v","o","l","u","m","e",":"," ">>
VolumeSuffix == <<" ","d","B","\n">>

\* VOLUME_REGEX.match at the head of str: None, or Some(group 1)
VolumeMatchAt(str) ==
    IF ~StartsWith(str, VolumePrefix) THEN None
    ELSE LET rest == SubSeq(str, Len(VolumePrefix) + 1, Len(str))
             n == ClassLen(rest)
         IN  IF n >= 1 /\ StartsWith(SubSeq(rest, n + 1, Len(rest)), VolumeSuffix)
             THEN Some(SubSeq(rest, 1, n))
             ELSE None

\* VOLUME_REGEX.search(str): the leftmost match
RECURSIVE VOLUME_REGEX_search(_)
VOLUME_REGEX_search(str) ==
    IF str = <<>> THEN None
    ELSE IF VolumeMatchAt(str) # None THEN VolumeMatchAt(str)
    ELSE VOLUME_REGEX_search(Tail(str))

\* The longest prefix of str made of digits
RECURSIVE FirstDigits(_)
FirstDigits(str) ==
    IF str # <<>> /\ Head(str) \in Digits THEN <<Head(str)>> \o FirstDigits(Tail(str))
    ELSE <<>>

RECURSIVE DigitsValue(_)
DigitsValue(ds) ==
    IF ds = <<>> THEN 0
    ELSE DigitsValue(SubSeq(ds, 1, Len(ds) - 1)) * 10 + DigitValue(ds[Len(ds)])

\* float(text) for a text of the class [\-\d.]: [ok, value], the value in
\* tenths of a unit (ffmpeg prints one decimal; a text with more decimals is
\* outside the bounds of the model)
ParseFloat(text) ==
    LET body == IF text # <<>> /\ Head(text) = "-" THEN Tail(text) ELSE text
        whole == FirstDigits(body)
        after == SubSeq(body, Len(whole) + 1, Len(body))
        frac == IF after # <<>> /\ Head(after) = "." THEN Tail(after) ELSE <<>>
        wellformed == /\ \A k \in 1..Len(whole) : whole[k] \in Digits
                      /\ \A k \in 1..Len(frac) : frac[k] \in Digits
                      /\ Len(frac) <= 1
                      /\ (after = <<>> \/ Head(after) = ".")
                      /\ Len(whole) + Len(frac) >= 1
        magnitude == DigitsValue(whole) * 10 + DigitsValue(frac)
    IN  IF wellformed
        THEN [ok |-> TRUE, value |-> IF body # text THEN 0 - magnitude ELSE magnitude]
        ELSE [ok |-> FALSE, value |-> 0]

\* ffmpeg_get_max_volume after call_ffmpeg returned stdout: [err, max_volume]
ExtractMaxVolume(out) ==
    LET m == VOLUME_REGEX_search(out)
    IN  IF m = None THEN [err |-> Exception("AttributeError"), max_volume |-> 0]
        ELSE IF ~ParseFloat(m[1]).ok
        THEN [err |-> Exception("ValueError"), max_volume |-> 0]
        ELSE [err |-> NoError, max_volume |-> ParseFloat(m[1]).value]

Abs(v) == IF v < 0 THEN 0 - v ELSE v
Max(a, b) == IF a >= b THEN a ELSE b

\* The gain clamped the other way: max(-max_volume, 0)
TargetVolume_clamped(v) == Max(0 - v, 0)

\* target_volume = max(abs(max_volume), 0)
TargetVolume(v) == Max(Abs(v), 0)

RECURSIVE IntStr(_)
IntStr(n) ==
    IF n < 10 THEN <<DigitChars[n + 1]>>
    ELSE IntStr(n \div 10) \o <<DigitChars[(n % 10) + 1]>>

\* f'{volume:.1f}' of a volume >= 0 given in tenths
FormatVolume(v) == IntStr(v \div 10) \o <<".">> \o <<DigitChars[(v % 10) + 1]>>

\* The parameter list of ffmpeg_get_max_volume
DetectParams(in_path) ==
    [in_path |-> Str(in_path), out_path |-> <<"n","u","l","l">>,
     af |-> <<"v","o","l","u","m","e","d","e","t","e","c","t">>,
     encoder |-> "", bitrate |-> None]

\* The parameter list of ffmpeg_convert_with_volume_filter
EncodeParams(in_path, out_path, volume, config) ==
    [in_path |-> Str(in_path), out_path |-> Str(out_path),
     af |-> <<"v","o","l","u","m","e","=">> \o FormatVolume(volume) \o <<"d","B">>,
     encoder |-> config.encoder, bitrate |-> config.bitrate]

(***************************************************************************)
(* The inputs of a run                                                     *)
(***************************************************************************)
star_wav == <<"*",".","w","a","v">>
star_ogg == <<"*",".","o","g","g">>
star_q == <<"*",".","q">>
abs_star_q == <<"/","*",".","q">>
n_wav == <<"n",".","w","a","v">>
s_x_wav == <<"s","/","x",".","w","a","v">>
ogg96 == <<"o","g","g","9","6">>
mp3320 == <<"m","p","3","3","2","0">>

\* positional tokens of a run: files, patterns and a preset
Tokens == {x_wav, x_mp3, s_x_wav, star_wav, star_ogg, star_q, abs_star_q,
           n_wav, u_ogg, ogg96}

\* positional tokens of a run that selects presets
PresetTokens == {mp3, mp3320, m4a, aac, ogg, ogg96, opus, flac, wav,
                 <<"O","G","G">>, x_wav}

\* -d: the working directory (the default), a directory to make, a file
OutputDirArgs == {<<".">>, dir_o, x_wav}

\* -e: absent (the default), or an extension
ExtensionArgs == {None, Some(mp3)}

\* The text ffmpeg prints around the line looked for
MeanVolumeLine == <<"m","e","a","n","_","v","o","l","u","m","e",":"," ",
                    "-","9",".","0"," ","d","B","\n">>

MaxVolumeLine(text) == VolumePrefix \o text \o VolumeSuffix

\* What ffmpeg may print on a detect pass: no max_volume line, a negative,
\* a zero and a positive volume, two lines, a text that is no number
DetectOutputs ==
    {MeanVolumeLine,
     MeanVolumeLine \o MaxVolumeLine(<<"-","3",".","2">>),
     MeanVolumeLine \o MaxVolumeLine(<<"0",".","0">>),
     MaxVolumeLine(<<"1",".","5">>) \o MaxVolumeLine(<<"-","3",".","2">>),
     MeanVolumeLine \o MaxVolumeLine(<<"-">>)}

\* The volumes ffmpeg may print with digits up to MaxDigit
VolumeTexts ==
    {sign \o <<DigitChars[a + 1], ".", DigitChars[b + 1]>> :
        sign \in {<<>>, <<"-">>}, a \in 0..MaxDigit, b \in 0..MaxDigit}

VolumeOutputs == {MeanVolumeLine \o MaxVolumeLine(v) : v \in VolumeTexts}

\* The runs of the tool: it is missing, it cannot be started, its output
\* is no UTF-8, it exits with a status other than 0, it exits with 0.
ToolRuns(outputs) ==
    {ToolRun("FileNotFoundError", TRUE, 0, <<>>),
     ToolRun("PermissionError", TRUE, 0, <<>>),
     ToolRun("started", FALSE, 0, <<>>)}
    \cup {ToolRun("started", TRUE, 1, out) : out \in {MaxVolumeLine(<<"0",".","0">>)}}
    \cup {ToolRun("started", TRUE, 0, out) : out \in outputs}

(***************************************************************************)
(* The process                                                             *)
(***************************************************************************)
\* No ffmpeg invocation made yet
NoCall == [run |-> ToolRun("none", TRUE, 0, <<>>),
           result |-> [err |-> NoError, stdout |-> <<>>]]

\* No path under test
Idle == [in_path |-> <<>>, out_dir |-> <<>>, extension |-> <<>>,
         out_path |-> <<>>, done |-> TRUE]

\* The state of the process as main is entered
Start ==
    /\ pc = "start"
    /\ created = {}
    /\ output_dir = <<>>
    /\ format_config = FormatConfig("", <<>>, None)
    /\ input_patterns = <<>>
    /\ expanded = <<>>
    /\ input_files = <<>>
    /\ i = 0
    /\ max_volume = 0
    /\ calls = <<>>
    /\ params = DetectParams(<<>>)
    /\ popen = NoCall
    /\ err = NoError
    /\ stderr = <<>>
    /\ exit_code = -1
    /\ task = Idle

ArgSpace(dirs, extensions, lists) ==
    {[output_dir |-> d, extension |-> e, inputs |-> ins] :
        d \in dirs, e \in extensions, ins \in lists}

\* Runs over files and patterns of every kind
Init ==
    /\ args \in ArgSpace(OutputDirArgs, ExtensionArgs,
                         SeqsUpTo(Tokens, MaxInputs) \ {<<>>})
    /\ ffmpeg_outputs = DetectOutputs
    /\ Start

\* Runs that select presets
InitPreset ==
    /\ args \in ArgSpace({<<".">>}, ExtensionArgs,
                         SeqsUpTo(PresetTokens, MaxInputs) \ {<<>>})
    /\ ffmpeg_outputs = {MeanVolumeLine \o MaxVolumeLine(<<"-","3",".","2">>)}
    /\ Start

\* Runs over one file or one pattern, with every volume
InitGain ==
    /\ args \in ArgSpace({<<".">>, dir_o}, {None}, {<<x_wav>>, <<star_wav>>})
    /\ ffmpeg_outputs = VolumeOutputs
    /\ Start

\* main: an FfmpegNmlzError is caught and printed, and main returns; any
\* other exception leaves the interpreter, which prints the traceback and
\* exits with status 1.
Raise(e) ==
    /\ err' = e
    /\ pc' = "exited"
    /\ stderr' = Append(stderr,
                        IF e.type = "FfmpegNmlzError"
                        THEN [prefix |-> "ERROR: ", text |-> e.text, subject |-> e.subject]
                        ELSE [prefix |-> "Traceback", text |-> e.type, subject |-> <<>>])
    /\ exit_code' = IF e.type = "FfmpegNmlzError" THEN 0 ELSE 1

\* verify_and_prepare_args, lines 119-127
OutputDir ==
    /\ pc = "start"
    /\ LET r == PrepareOutputDir(args.output_dir, created)
       IN  IF r.err # NoError
           THEN /\ Raise(r.err)
                /\ UNCHANGED <<created, output_dir>>
           ELSE /\ output_dir' = r.output_dir
                /\ created' = r.created
                /\ pc' = "parse"
                /\ UNCHANGED <<err, stderr, exit_code>>
    /\ UNCHANGED <<args, ffmpeg_outputs, format_config, input_patterns, expanded, input_files, i,
                   max_volume, calls, params, popen, task>>

\* verify_and_prepare_args, lines 130-152
Presets ==
    /\ pc = "parse"
    /\ LET st == ParseInputs(args.inputs, args.extension)
       IN  /\ format_config' = FormatConfig(st.encoder, st.extension, st.bitrate)
           /\ input_patterns' = st.input_patterns
    /\ pc' = "resolve"
    /\ UNCHANGED <<args, ffmpeg_outputs, created, output_dir, expanded, input_files, i, max_volume,
                   calls, params, popen, err, stderr, exit_code, task>>

\* verify_and_prepare_args, lines 154-175, and the entry of the loop of
\* do_normalizing
InputFiles ==
    /\ pc = "resolve"
    /\ LET r == ResolvePatterns(input_patterns, <<>>, created)
       IN  /\ expanded' = r.files
           /\ IF r.err # NoError
              THEN /\ Raise(r.err)
                   /\ UNCHANGED <<input_files, i>>
              ELSE /\ input_files' = Dedup(r.files)
                   /\ i' = 1
                   /\ pc' = "detect"
                   /\ UNCHANGED <<err, stderr, exit_code>>
    /\ UNCHANGED <<args, ffmpeg_outputs, created, output_dir, format_config, input_patterns,
                   max_volume, calls, params, popen, task>>

\* do_normalizing, lines 207-212: the detect pass on file i
Detect ==
    /\ pc = "detect"
    /\ i <= Len(input_files)
    /\ \E run \in ToolRuns(ffmpeg_outputs) :
         LET in_path == input_files[i]
             r == call_ffmpeg(run)
             v == ExtractMaxVolume(r.stdout)
             failure == IF r.err # NoError THEN r.err ELSE v.err
         IN  /\ params' = DetectParams(in_path)
             /\ popen' = [run |-> run, result |-> r]
             /\ calls' = Append(calls, [mode |-> "detect", in_path |-> in_path,
                                        out_path |-> <<>>,
                                        start |-> run.start,
                                        returncode |-> run.returncode,
                                        ok |-> failure = NoError])
             /\ IF failure # NoError
                THEN /\ Raise(failure)
                     /\ UNCHANGED max_volume
                ELSE /\ max_volume' = v.max_volume
                     /\ pc' = "encode"
                     /\ UNCHANGED <<err, stderr, exit_code>>
    /\ UNCHANGED <<args, ffmpeg_outputs, created, output_dir, format_config, input_patterns, expanded,
                   input_files, i, task>>

\* do_normalizing, lines 209 and 214-220: the encode pass on file i
Encode ==
    /\ pc = "encode"
    /\ \E run \in ToolRuns({<<>>}) :
         LET in_path == input_files[i]
             out_path == get_out_path(output_dir, format_config, in_path)
             target_volume == TargetVolume(max_volume)
             r == call_ffmpeg(run)
         IN  /\ params' = EncodeParams(in_path, out_path, target_volume, format_config)
             /\ popen' = [run |-> run, result |-> r]
             /\ calls' = Append(calls, [mode |-> "encode", in_path |-> in_path,
                                        out_path |-> out_path,
                                        start |-> run.start,
                                        returncode |-> run.returncode,
                                        ok |-> r.err = NoError])
             /\ IF r.err # NoError
                THEN /\ Raise(r.err)
                     /\ UNCHANGED i
                ELSE /\ i' = i + 1
                     /\ pc' = "detect"
                     /\ UNCHANGED <<err, stderr, exit_code>>
    /\ UNCHANGED <<args, ffmpeg_outputs, created, output_dir, format_config, input_patterns, expanded,
                   input_files, max_volume, task>>

\* do_normalizing returns after the last file, main returns, the
\* interpreter exits with status 0
Return ==
    /\ pc = "detect"
    /\ i > Len(input_files)
    /\ pc' = "exited"
    /\ exit_code' = 0
    /\ UNCHANGED <<args, ffmpeg_outputs, created, output_dir, format_config, input_patterns, expanded,
                   input_files, i, max_volume, calls, params, popen, err, stderr, task>>

Next == OutputDir \/ Presets \/ InputFiles \/ Detect \/ Encode \/ Return

Spec == Init /\ [][Next]_vars

SpecPreset == InitPreset /\ [][Next]_vars

SpecGain == InitGain /\ [][Next]_vars

(***************************************************************************)
(* get_out_path on its own: every short file name, every short extension   *)
(* argument, an output directory that is or is not the directory of the    *)
(* input.                                                                  *)
(***************************************************************************)
NameChars == {"x", "-", "1", "."}
ExtChars == {"x", "1", ".", "/"}

FileNames == SeqsUpTo(NameChars, MaxName) \ {<<>>, <<".">>, <<".",".">>}

PathDirs == {<<Root, dir_o>>, <<Root, dir_w>>, <<Root, dir_o, <<"x","-","1",".">>>>}

InitPath ==
    /\ task \in {[in_path |-> Append(d, n), out_dir |-> od, extension |-> e,
                   out_path |-> <<>>, done |-> FALSE] :
                     d \in PathDirs, n \in FileNames, od \in PathDirs,
                     e \in SeqsUpTo(ExtChars, MaxExt)}
    /\ args = [output_dir |-> Str(task.out_dir), extension |-> Some(task.extension),
               inputs |-> <<Str(task.in_path)>>]
    /\ ffmpeg_outputs = {}
    /\ pc = "path"
    /\ created = {}
    /\ output_dir = task.out_dir
    /\ format_config = FormatConfig(PRESET_INFO[wav].encoder, task.extension,
                                    PRESET_INFO[wav].bitrate)
    /\ input_patterns = <<>>
    /\ expanded = <<>>
    /\ input_files = <<task.in_path>>
    /\ i = 1
    /\ max_volume = 0
    /\ calls = <<>>
    /\ params = DetectParams(<<>>)
    /\ popen = NoCall
    /\ err = NoError
    /\ stderr = <<>>
    /\ exit_code = -1

\* do_normalizing, line 209
OutPath ==
    /\ pc = "path"
    /\ ~task.done
    /\ task' = [task EXCEPT !.out_path = get_out_path(output_dir, format_config,
                                                      input_files[i]),
                            !.done = TRUE]
    /\ UNCHANGED <<args, ffmpeg_outputs, pc, created, output_dir, format_config,
                   input_patterns, expanded, input_files, i, max_volume, calls,
                   params, popen, err, stderr, exit_code>>

NextPath == OutPath

SpecPath == InitPath /\ [][NextPath]_vars

(***************************************************************************)
(* Properties                                                              *)
(***************************************************************************)
LastCall == calls[Len(calls)]

\* The run of the tool behind call k started and exited with status 0
RanWell(k) == calls[k].start = "started" /\ calls[k].returncode = 0

\* C1: the invocations made so far are detect(f1), encode(f1), detect(f2),
\* ... over the deduplicated input list, in that order; every invocation
\* but the latest ran to a zero exit status and, for a detect, gave a
\* volume; and once an invocation has failed the process has exited, so
\* that none follows it.
C1_Sequential ==
    /\ Len(calls) <= 2 * Len(input_files)
    /\ \A k \in 1..Len(calls) :
          /\ calls[k].mode = IF k % 2 = 1 THEN "detect" ELSE "encode"
          /\ calls[k].in_path = input_files[(k + 1) \div 2]
          /\ RanWell(k) \/ ~calls[k].ok
    /\ \A k \in 1..(Len(calls) - 1) : RanWell(k) /\ calls[k].ok
    /\ (calls # <<>> /\ ~(RanWell(Len(calls)) /\ LastCall.ok)) => pc = "exited"
    /\ pc = "encode" => (calls # <<>> /\ LastCall.mode = "detect" /\ LastCall.ok)

\* A run that stopped at the detect pass of its second file, with a third
\* file left
C1_Witness ==
    /\ pc = "exited"
    /\ Len(input_files) >= 3
    /\ Len(calls) = 3
    /\ LastCall.returncode # 0

TypedFailure == err.type = "FfmpegNmlzError"

\* C2: a run that ended on an FfmpegNmlzError printed "ERROR: <message>" on
\* standard error and exited with a status other than 0; a run that exited
\* with status 0 processed every file.
C2_AbnormalExit ==
    pc = "exited" =>
        /\ TypedFailure =>
              /\ stderr = <<[prefix |-> "ERROR: ", text |-> err.text,
                             subject |-> err.subject]>>
              /\ exit_code # 0
        /\ exit_code = 0 =>
              /\ err = NoError
              /\ Len(calls) = 2 * Len(input_files)

\* C2 without the exit status: a run that ended on an FfmpegNmlzError
\* printed "ERROR: <message>", and a run that ended on no error processed
\* every file.  It holds.
C2_MessagePrinted ==
    pc = "exited" =>
        /\ TypedFailure => stderr = <<[prefix |-> "ERROR: ", text |-> err.text,
                                       subject |-> err.subject]>>
        /\ err = NoError => Len(calls) = 2 * Len(input_files)

\* The entries of the file system, the directories made by the run included
AllEntries == FsFiles \cup FsDirs \cup DOMAIN FsLinks \cup created

\* The entries a pattern matches, part by part, whether the pattern is
\* relative to the working directory or absolute
PatternMatches(pattern) ==
    LET pp == IF IsAbsolute(PurePath(pattern)) THEN PurePath(pattern)
              ELSE Cwd \o PurePath(pattern)
    IN  {q \in AllEntries :
            /\ Len(q) = Len(pp)
            /\ \A k \in 1..Len(pp) : Match(pp[k], q[k])}

IsPattern(token) == \E k \in 1..Len(token) : token[k] \in {"*", "?"}

Opens(q) == Resolve(q, created).ok /\ CanRead(Resolve(q, created).path)

\* The token fails resolution: a pattern that matches no file, or a path
\* (the token, or a match of the pattern) that cannot be resolved and read
FailsResolution(token) ==
    IF IsPattern(token)
    THEN PatternMatches(token) = {} \/ \E q \in PatternMatches(token) : ~Opens(q)
    ELSE ~Opens(PurePath(token))

\* The error names the token: the pattern itself when nothing matches it,
\* else a path that cannot be opened, as written or as resolved
NamesToken(e, token) ==
    /\ e.type = "FfmpegNmlzError"
    /\ IF IsPattern(token) /\ PatternMatches(token) = {}
       THEN e.text = "No files found for pattern: " /\ e.subject = token
       ELSE /\ e.text = "Failed to open file: "
            /\ \E q \in (IF IsPattern(token) THEN PatternMatches(token)
                         ELSE {Absolute(PurePath(token))}) :
                  /\ ~Opens(q)
                  /\ \/ e.subject = Str(q)
                     \/ e.subject = Str(SubSeq(q, Len(Cwd) + 1, Len(q)))
                     \/ e.subject = Str(Resolve(q, created).path)

FirstFailing ==
    CHOOSE k \in 1..Len(input_patterns) :
        /\ FailsResolution(input_patterns[k])
        /\ \A j \in 1..(k - 1) : ~FailsResolution(input_patterns[j])

\* C3: when a token of the run fails resolution, the run ends on an
\* FfmpegNmlzError naming the first such token and no ffmpeg invocation
\* is made, wherever the token stands among the inputs.
C3_InputError ==
    (pc \notin {"start", "parse", "resolve"}
       /\ \E k \in 1..Len(input_patterns) : FailsResolution(input_patterns[k]))
    => /\ pc = "exited"
       /\ NamesToken(err, input_patterns[FirstFailing])
       /\ calls = <<>>

\* C3 on the runs whose tokens are all relative: it holds there.
C3_RelativeTokens ==
    (\A k \in 1..Len(args.inputs) : ~IsAbsolute(PurePath(args.inputs[k])))
    => C3_InputError

IsPresetToken(token) ==
    \E name \in DOMAIN PRESET_INFO :
        /\ StartsWith(token, name)
        /\ \A k \in (Len(name) + 1)..Len(token) : token[k] \in Digits

PresetOf(token) ==
    CHOOSE name \in DOMAIN PRESET_INFO :
        /\ StartsWith(token, name)
        /\ \A k \in (Len(name) + 1)..Len(token) : token[k] \in Digits

\* The configuration the last preset token of the inputs selects
SelectedConfig(inputs, extension) ==
    LET picks == {k \in 1..Len(inputs) : IsPresetToken(inputs[k])}
        last == CHOOSE k \in picks : \A j \in picks : j <= k
        name == IF picks = {} THEN wav ELSE PresetOf(inputs[last])
        digits == IF picks = {} THEN <<>>
                  ELSE SubSeq(inputs[last], Len(name) + 1, Len(inputs[last]))
    IN  FormatConfig(PRESET_INFO[name].encoder,
                     IF extension # None THEN extension[1]
                     ELSE PRESET_INFO[name].extension,
                     IF digits # <<>> THEN Some(digits \o <<"K">>)
                     ELSE PRESET_INFO[name].bitrate)

\* C5: the resolved configuration is the one of the last token that is a
\* preset name of the table with optional digits (wav when there is none),
\* with the digits as bitrate and the extension flag as extension when
\* given; the file patterns are exactly the other tokens.
C5_PresetResolution ==
    pc \notin {"start", "parse"} =>
        /\ format_config = SelectedConfig(args.inputs, args.extension)
        /\ input_patterns = SelectSeq(args.inputs, LAMBDA tok : ~IsPresetToken(tok))

\* C5 on the runs without a token that starts with a preset name holding
\* a digit (mp3, m4a): it holds there.
C5_LetterPresets ==
    (\A k \in 1..Len(args.inputs) :
        ~StartsWith(args.inputs[k], mp3) /\ ~StartsWith(args.inputs[k], m4a))
    => C5_PresetResolution

FirstIndex(list, x) == CHOOSE k \in 1..Len(list) : list[k] = x /\ \A j \in 1..(k - 1) : list[j] # x

CallsOn(mode, f) == Cardinality({k \in 1..Len(calls) : calls[k].mode = mode /\ calls[k].in_path = f})

Resolved == pc \in {"detect", "encode"} \/ (pc = "exited" /\ i >= 1)

\* C6: once the inputs are resolved, the input list holds every path of
\* the expansion exactly once, in the order of first occurrence in the
\* expansion, and no file is detected or encoded more than once.
C6_FirstOccurrenceOrder ==
    Resolved =>
        /\ Range(input_files) = Range(expanded)
        /\ \A a, b \in 1..Len(input_files) :
              a < b => FirstIndex(expanded, input_files[a])
                         < FirstIndex(expanded, input_files[b])
        /\ \A f \in Range(expanded) : CallsOn("detect", f) <= 1 /\ CallsOn("encode", f) <= 1

\* A run to the end over an expansion in which a file occurs twice
C6_Witness ==
    /\ pc = "exited"
    /\ err = NoError
    /\ Len(input_files) >= 2
    /\ Len(expanded) > Len(input_files)
    /\ expanded[1] = expanded[Len(expanded)]

Missing == "FFmpeg is not installed. Please install FFmpeg first."
LaunchFailed == "Failed to start FFmpeg. Please check your FFmpeg installation."
ExitedAbnormally == "FFmpeg exited abnormally."

GainPassed == ParseFloat(SubSeq(params.af, 8, Len(params.af) - 2)).value

Encoding == calls # <<>> /\ LastCall.mode = "encode"

\* C8 as stated: the gain passed to the encode pass is >= 0 and brings the
\* measured peak to 0 dB, whatever the sign of the measured volume.
C8_PeakAtZero ==
    Encoding => GainPassed >= 0 /\ max_volume + GainPassed = 0

\* C8, amended: the gain passed to the encode pass is >= 0; it brings the
\* peak to 0 dB when the measured volume is <= 0, and equals the measured
\* volume when that is > 0.
C8_GainIsMagnitude ==
    Encoding =>
        /\ GainPassed >= 0
        /\ max_volume <= 0 => max_volume + GainPassed = 0
        /\ max_volume > 0 => GainPassed = max_volume

\* An encode pass after a positive volume was measured
C8_Witness == Encoding /\ max_volume > 0 /\ GainPassed = max_volume

\* C9: no encode pass that ran writes to the path of an input file of the
\* run.
C9_NoInputOverwritten ==
    \A k \in 1..Len(calls) :
        (calls[k].mode = "encode" /\ RanWell(k))
        => calls[k].out_path \notin Range(input_files)

\* C10: the encode passes that ran on two input files wrote to two paths.
C10_DistinctOutputs ==
    \A j, k \in 1..Len(calls) :
        (calls[j].mode = "encode" /\ calls[k].mode = "encode"
           /\ RanWell(j) /\ RanWell(k)
           /\ calls[j].in_path # calls[k].in_path)
        => calls[j].out_path # calls[k].out_path

====
